---- MODULE Spec2Model ----
(***************************************************************************)
(* A model of meowz, a parser of a Markdown subset with mkdocs-style       *)
(* admonitions and tabs.                                                   *)
(*                                                                         *)
(* Part I models the parser of src/meowz: the grammar of grammar.py and    *)
(* the MarkdownTransformer and parse() of parser.py.  The input is the     *)
(* text cut at its token boundaries (a sequence of lexemes, each a         *)
(* sequence of characters); the lexer types each lexeme by the terminal    *)
(* patterns of the grammar, in the parser's context; the rules build the   *)
(* parse tree the way Lark does (named terminals and anonymous regular     *)
(* expressions are kept as children, anonymous string literals are         *)
(* dropped, an aliased alternative of a ?rule is not inlined); the         *)
(* transformer is applied bottom-up to the finished tree.                  *)
(*                                                                         *)
(* Part II models the inline rules of the grammar on single characters.    *)
(*                                                                         *)
(* Part III models the line cursor and the hand-written block parsers the  *)
(* specification describes; their code is not in src/.                     *)
(***************************************************************************)
EXTENDS Naturals, Sequences, FiniteSets, TLC

VARIABLES input, pos, pc, blocks, tree, result

vars == <<input, pos, pc, blocks, tree, result>>

---------------------------------------------------------------------------
(* Bounds of the model. *)

\* The number of input lines (line templates) of a parsed text.
MaxLines == 3

---------------------------------------------------------------------------
(* Lexemes. *)

BANG3 == <<"!", "!", "!">>
QUEST3 == <<"?", "?", "?">>
EQ3 == <<"=", "=", "=">>
\* The backquote is written "~" in the model.
FENCE == <<"~", "~", "~">>
GT == <<">">>
LSQB == <<"[">>
RSQB == <<"]">>
LPAR == <<"(">>
RPAR == <<")">>
SP == <<" ">>
NL == <<"\n">>

\* INDENT and DEDENT are imported by the grammar and have no pattern in the
\* repository: the model takes them as opaque lexemes of the stream.
INDENT == <<"<INDENT>">>
DEDENT == <<"<DEDENT>">>

Opaque == {INDENT, DEDENT}

LowerCase == {"a", "b", "c", "d", "e", "f", "g", "h", "i", "j", "k", "l", "m",
              "n", "o", "p", "q", "r", "s", "t", "u", "v", "w", "x", "y", "z"}
UpperCase == {"A", "B", "C", "D", "E", "F", "G", "H", "I", "J", "K", "L", "M",
              "N", "O", "P", "Q", "R", "S", "T", "U", "V", "W", "X", "Y", "Z"}
Digits == {"0", "1", "2", "3", "4", "5", "6", "7", "8", "9"}

\* HASHES: /#{1,6}/
HASHES(s) == Len(s) \in 1..6 /\ \A i \in 1..Len(s) : s[i] = "#"

\* ADMO_TAG: "???" | "!!!"
ADMO_TAG(s) == s \in {QUEST3, BANG3}

\* LIST_MARKER: /[-*+]/
LIST_MARKER(s) == Len(s) = 1 /\ s[1] \in {"-", "*", "+"}

\* LANGUAGE: /[a-zA-Z0-9_+\-]+/
LANGUAGE(s) ==
    /\ Len(s) >= 1
    /\ \A i \in 1..Len(s) : s[i] \in LowerCase \cup UpperCase \cup Digits \cup {"_", "+", "-"}

\* URL: /[^()\s]+/
URL(s) == Len(s) >= 1 /\ \A i \in 1..Len(s) : s[i] \notin {"(", ")", " ", "\t", "\n", "\r"}

\* TEXT: /[^\[\]\n]+/
TEXT(s) == Len(s) >= 1 /\ \A i \in 1..Len(s) : s[i] \notin {"[", "]", "\n"}

\* STRING: ESCAPED_STRING, a double-quoted string on one line (the alphabet
\* of the model has no backslash).
ESCAPED_STRING(s) ==
    /\ Len(s) >= 2
    /\ s[1] = "\"" /\ s[Len(s)] = "\""
    /\ \A i \in 2..(Len(s) - 1) : s[i] \notin {"\"", "\n"}

\* WS_INLINE: /[ \t]+/
WS_INLINE(s) == Len(s) >= 1 /\ \A i \in 1..Len(s) : s[i] \in {" ", "\t"}

\* NEWLINE: (CR? LF)+
NEWLINE(s) == Len(s) >= 1 /\ \A i \in 1..Len(s) : s[i] = "\n"

\* Whether lexeme s matches the pattern of terminal type.
Match(type, s) ==
    IF s \in Opaque
    THEN type = (IF s = INDENT THEN "INDENT" ELSE "DEDENT")
    ELSE CASE type = "HASHES" -> HASHES(s)
           [] type = "ADMO_TAG" -> ADMO_TAG(s)
           [] type = "LIST_MARKER" -> LIST_MARKER(s)
           [] type = "LANGUAGE" -> LANGUAGE(s)
           [] type = "URL" -> URL(s)
           [] type = "TEXT" -> TEXT(s)
           [] type = "STRING" -> ESCAPED_STRING(s)
           [] type = "WS_INLINE" -> WS_INLINE(s)
           [] type = "NEWLINE" -> NEWLINE(s)
           [] type = "EQ3" -> s = EQ3
           [] type = "FENCE" -> s = FENCE
           [] type = "GT" -> s = GT
           [] type = "LSQB" -> s = LSQB
           [] type = "RSQB" -> s = RSQB
           [] type = "LPAR" -> s = LPAR
           [] type = "RPAR" -> s = RPAR
           [] OTHER -> FALSE

\* The contextual lexer: the lexeme at p is a token of the terminal the
\* parser accepts there.
Is(in, p, type) == p <= Len(in) /\ Match(type, in[p])

RECURSIVE CountNewlines(_)
CountNewlines(s) ==
    IF s = <<>> THEN 0
    ELSE (IF Head(s) = "\n" THEN 1 ELSE 0) + CountNewlines(Tail(s))

\* The 1-based line of the lexeme at p.
RECURSIVE LineOf(_, _)
LineOf(in, p) ==
    IF p <= 1 THEN 1
    ELSE LineOf(in, p - 1) + CountNewlines(in[p - 1])

\* A token as the lexer yields it: its type, its text and where it starts.
Token(type, in, p) ==
    [k |-> "Token", type |-> type, value |-> in[p],
     line |-> LineOf(in, p), start_pos |-> p]

\* A parse tree node; propagate_positions=True records the line of its first
\* token.
Tree(data, children, line) ==
    [k |-> "Tree", data |-> data, children |-> children, line |-> line]

---------------------------------------------------------------------------
(* The grammar (grammar.py), rule by rule.  A symbol of a rule is a        *)
(* terminal (T; Lit for an anonymous string literal, which Lark drops from *)
(* the tree), an optional terminal (OptT), a run of a terminal (PlusT), a  *)
(* rule (NT), a run of a rule (PlusN), an optional rule (OptN) or the      *)
(* anonymous regular expression of code_lines (CodeRegex).                 *)

T(name) == [s |-> "T", name |-> name, keep |-> TRUE]
Lit(name) == [s |-> "T", name |-> name, keep |-> FALSE]
OptT(name) == [s |-> "T?", name |-> name, keep |-> TRUE]
PlusT(name) == [s |-> "T+", name |-> name, keep |-> TRUE]
NT(name) == [s |-> "N", name |-> name, keep |-> TRUE]
PlusN(name) == [s |-> "N+", name |-> name, keep |-> TRUE]
OptN(name) == [s |-> "N?", name |-> name, keep |-> TRUE]
CodeRegex == [s |-> "CODE", name |-> "__ANON", keep |-> TRUE]

\* An alternative of a rule: the name of the tree it builds (its alias, or
\* the rule's name) and its symbols.  A group of a rule, ( ... )+ or
\* ( ... )?, is a rule of its own whose children go to the tree of the rule
\* that holds it (inlined).
Alt(alias, syms) == [alias |-> alias, inlined |-> FALSE, syms |-> syms]
Group(syms) == [alias |-> "", inlined |-> TRUE, syms |-> syms]

\* start: block+
start_rule == <<Alt("start", <<PlusN("block")>>)>>

\* block: heading | admonition | tab_block | code_block | quote_block
\*      | list_block | paragraph
block_rule ==
    <<Alt("block", <<NT("heading")>>), Alt("block", <<NT("admonition")>>),
      Alt("block", <<NT("tab_block")>>), Alt("block", <<NT("code_block")>>),
      Alt("block", <<NT("quote_block")>>), Alt("block", <<NT("list_block")>>),
      Alt("block", <<NT("paragraph")>>)>>

\* heading: HASHES WS_INLINE inline NEWLINE -> heading
heading_rule ==
    <<Alt("heading", <<T("HASHES"), T("WS_INLINE"), NT("inline"), T("NEWLINE")>>)>>

\* admonition: ADMO_TAG WS_INLINE STRING NEWLINE INDENT block+ DEDENT -> admonition
admonition_rule ==
    <<Alt("admonition", <<T("ADMO_TAG"), T("WS_INLINE"), T("STRING"), T("NEWLINE"),
                          T("INDENT"), PlusN("block"), T("DEDENT")>>)>>

\* tab_block: tab_header+ tab_body -> tab_block
tab_block_rule == <<Alt("tab_block", <<PlusN("tab_header"), NT("tab_body")>>)>>

\* tab_header: "===" WS_INLINE STRING NEWLINE -> tab_header
tab_header_rule ==
    <<Alt("tab_header", <<Lit("EQ3"), T("WS_INLINE"), T("STRING"), T("NEWLINE")>>)>>

\* tab_body: INDENT block+ DEDENT -> tab_body
tab_body_rule == <<Alt("tab_body", <<T("INDENT"), PlusN("block"), T("DEDENT")>>)>>

\* code_block: "```" LANGUAGE? NEWLINE code_lines "```" NEWLINE? -> code_block
code_block_rule ==
    <<Alt("code_block", <<Lit("FENCE"), OptT("LANGUAGE"), T("NEWLINE"), NT("code_lines"),
                          Lit("FENCE"), OptT("NEWLINE")>>)>>

\* code_lines: /(.|\n)*?(?=```)/
code_lines_rule == <<Alt("code_lines", <<CodeRegex>>)>>

\* quote_block: ( ">" WS_INLINE? inline NEWLINE )+ -> quote_block
quote_block_rule == <<Alt("quote_block", <<PlusN("quote_block_group")>>)>>
quote_block_group ==
    <<Group(<<Lit("GT"), OptT("WS_INLINE"), NT("inline"), T("NEWLINE")>>)>>

\* list_block: list_item+ -> list_block
list_block_rule == <<Alt("list_block", <<PlusN("list_item")>>)>>

\* list_item: LIST_MARKER WS_INLINE? inline NEWLINE (INDENT list_item+ DEDENT)?
list_item_rule ==
    <<Alt("list_item", <<T("LIST_MARKER"), OptT("WS_INLINE"), NT("inline"), T("NEWLINE"),
                         OptN("list_item_group")>>)>>
list_item_group == <<Group(<<T("INDENT"), PlusN("list_item"), T("DEDENT")>>)>>

\* A paragraph that goes on over the lines that follow it.
paragraph_rule_continued ==
    <<Alt("paragraph", <<PlusN("inline"), PlusT("NEWLINE"), OptN("paragraph")>>)>>

\* paragraph: inline+ NEWLINE+ -> paragraph
paragraph_rule == <<Alt("paragraph", <<PlusN("inline"), PlusT("NEWLINE")>>)>>

\* ?inline: link -> link | TEXT -> text
\* Both alternatives are aliased, so neither is inlined: the first wraps the
\* tree of the link rule in a second tree named link.
inline_rule == <<Alt("link", <<NT("link")>>), Alt("text", <<T("TEXT")>>)>>

\* link: "[" TEXT "]" "(" URL ")" -> link
link_rule ==
    <<Alt("link", <<Lit("LSQB"), T("TEXT"), Lit("RSQB"), Lit("LPAR"), T("URL"),
                    Lit("RPAR")>>)>>

\* The alternatives of the rule named name.
Rule(name) ==
    CASE name = "start" -> start_rule
      [] name = "block" -> block_rule
      [] name = "heading" -> heading_rule
      [] name = "admonition" -> admonition_rule
      [] name = "tab_block" -> tab_block_rule
      [] name = "tab_header" -> tab_header_rule
      [] name = "tab_body" -> tab_body_rule
      [] name = "code_block" -> code_block_rule
      [] name = "code_lines" -> code_lines_rule
      [] name = "quote_block" -> quote_block_rule
      [] name = "quote_block_group" -> quote_block_group
      [] name = "list_block" -> list_block_rule
      [] name = "list_item" -> list_item_rule
      [] name = "list_item_group" -> list_item_group
      [] name = "paragraph" -> paragraph_rule
      [] name = "inline" -> inline_rule
      [] name = "link" -> link_rule

---------------------------------------------------------------------------
(* The parser (parser.py: Lark(grammar, parser='lalr')).  It decides on    *)
(* the next token alone; a repetition or an option takes the token when it *)
(* can (Lark resolves a shift/reduce conflict as a shift); a token no rule *)
(* accepts ends the parse with an error.  Of two terminals that match a    *)
(* lexeme where a block starts, the one of the earlier alternative is      *)
(* taken: a marker is the marker's token, any other text is TEXT.          *)

\* The terminals that can start the rule named name.
RECURSIVE First(_)
First(name) ==
    UNION { IF a.syms[1].s \in {"T", "T?", "T+"} THEN {a.syms[1].name}
            ELSE IF a.syms[1].s = "CODE" THEN {}
            ELSE First(a.syms[1].name)
            : a \in { Rule(name)[i] : i \in 1..Len(Rule(name)) } }

FirstOfAlt(a) ==
    IF a.syms[1].s \in {"T", "T?", "T+"} THEN {a.syms[1].name}
    ELSE IF a.syms[1].s = "CODE" THEN {}
    ELSE First(a.syms[1].name)

\* Whether the rule named name can start at lexeme p.
Starts(name, in, p) == \E t \in First(name) : Is(in, p, t)

\* The first alternative of the rule that can start at lexeme p (0: none).
PickAlt(alts, in, p) ==
    IF \E i \in 1..Len(alts) : \E t \in FirstOfAlt(alts[i]) : Is(in, p, t)
    THEN CHOOSE i \in 1..Len(alts) :
            /\ \E t \in FirstOfAlt(alts[i]) : Is(in, p, t)
            /\ \A j \in 1..(i - 1) : ~\E t \in FirstOfAlt(alts[j]) : Is(in, p, t)
    ELSE 0

\* The first FENCE lexeme at or after p (0 when there is none).
RECURSIVE NextFence(_, _)
NextFence(in, p) ==
    IF p > Len(in) THEN 0
    ELSE IF in[p] = FENCE THEN p
    ELSE NextFence(in, p + 1)

\* The characters of lexemes a..b of in.
RECURSIVE Flatten(_, _, _)
Flatten(in, a, b) == IF a > b THEN <<>> ELSE in[a] \o Flatten(in, a + 1, b)

\* What has been read of a sequence of symbols: whether every symbol so far
\* matched, the children gathered and the position reached.
Acc(ok, items, p) == [ok |-> ok, items |-> items, pos |-> p]

\* acc after a token of terminal sym at its position.
Shift(sym, in, acc) ==
    Acc(TRUE,
        IF sym.keep THEN Append(acc.items, Token(sym.name, in, acc.pos)) ELSE acc.items,
        acc.pos + 1)

\* acc after the code_lines regular expression, which matches the shortest
\* text that a fence follows (lexemes acc.pos .. q - 1, q the next fence).
ShiftCode(in, acc, q) ==
    IF q = 0 THEN Acc(FALSE, acc.items, acc.pos)
    ELSE Acc(TRUE,
             Append(acc.items,
                    [k |-> "Token", type |-> "__ANON",
                     value |-> Flatten(in, acc.pos, q - 1),
                     line |-> LineOf(in, acc.pos), start_pos |-> acc.pos]),
             q)

\* acc after the outcome r of a rule read at its position.
Join(acc, r) == Acc(r.ok, acc.items \o r.items, r.pos)

\* The outcome of an alternative a started at p, from what its symbols read:
\* one tree named by the alternative, or the children themselves for a group.
Reduce(a, in, p, acc) ==
    IF ~acc.ok THEN acc
    ELSE IF a.inlined THEN acc
    ELSE Acc(TRUE, <<Tree(a.alias, acc.items, LineOf(in, p))>>, acc.pos)

RECURSIVE Derive(_, _, _), MatchSyms(_, _, _, _), MatchSym(_, _, _), RepeatT(_, _, _),
          RepeatN(_, _, _), DeriveAlt(_, _, _)

\* The rule named name read at lexeme p.
Derive(name, in, p) == DeriveAlt(PickAlt(Rule(name), in, p), Rule(name), <<in, p>>)

DeriveAlt(i, alts, at) ==
    IF i = 0 THEN Acc(FALSE, <<>>, at[2])
    ELSE Reduce(alts[i], at[1], at[2],
                MatchSyms(alts[i].syms, 1, at[1], Acc(TRUE, <<>>, at[2])))

\* Symbols i.. of syms read from acc on.
MatchSyms(syms, i, in, acc) ==
    IF ~acc.ok \/ i > Len(syms) THEN acc
    ELSE MatchSyms(syms, i + 1, in, MatchSym(syms[i], in, acc))

\* One symbol read from acc on.
MatchSym(sym, in, acc) ==
    CASE sym.s = "T" ->
            IF Is(in, acc.pos, sym.name) THEN Shift(sym, in, acc)
            ELSE Acc(FALSE, acc.items, acc.pos)
      [] sym.s = "T?" ->
            IF Is(in, acc.pos, sym.name) THEN Shift(sym, in, acc) ELSE acc
      [] sym.s = "T+" ->
            IF Is(in, acc.pos, sym.name) THEN RepeatT(sym, in, Shift(sym, in, acc))
            ELSE Acc(FALSE, acc.items, acc.pos)
      [] sym.s = "N" -> Join(acc, Derive(sym.name, in, acc.pos))
      [] sym.s = "N?" ->
            IF Starts(sym.name, in, acc.pos)
            THEN Join(acc, Derive(sym.name, in, acc.pos)) ELSE acc
      [] sym.s = "N+" -> RepeatN(sym, in, Join(acc, Derive(sym.name, in, acc.pos)))
      [] sym.s = "CODE" -> ShiftCode(in, acc, NextFence(in, acc.pos))

\* More tokens of terminal sym, as long as there is one.
RepeatT(sym, in, acc) ==
    IF Is(in, acc.pos, sym.name) THEN RepeatT(sym, in, Shift(sym, in, acc)) ELSE acc

\* More of rule sym, as long as one starts.
RepeatN(sym, in, acc) ==
    IF acc.ok /\ Starts(sym.name, in, acc.pos)
    THEN RepeatN(sym, in, Join(acc, Derive(sym.name, in, acc.pos)))
    ELSE acc

\* parser.parse(text): the tree of start, which must end the text.
ParseTree(in) == Derive("start", in, 1)

---------------------------------------------------------------------------
(* The values the transformer builds (parser.py).  A Python list is a      *)
(* sequence; a str that is not a field of a node is a record of kind       *)
(* "str"; an exception is a record of kind "Error".                        *)

None == [k |-> "None"]
Str(chars) == [k |-> "str", value |-> chars]
Error(exc) == [k |-> "Error", exc |-> exc]

Document(bs) == [k |-> "Document", blocks |-> bs]
TextInline(v) == [k |-> "TextInline", value |-> v]
LinkInline(t, u) == [k |-> "LinkInline", text |-> t, url |-> u]
Paragraph(is) == [k |-> "Paragraph", inlines |-> is]
CodeBlock(l, c) == [k |-> "CodeBlock", language |-> l, content |-> c]
ListItem(bs) == [k |-> "ListItem", blocks |-> bs]
BulletList(is) == [k |-> "BulletList", items |-> is]
QuoteBlock(ls) == [k |-> "QuoteBlock", lines |-> ls]
Tab(t, bs) == [k |-> "Tab", title |-> t, blocks |-> bs]
TabBlock(ts) == [k |-> "TabBlock", tabs |-> ts]
Admonition(t, ti, bs, f) ==
    [k |-> "Admonition", tag |-> t, title |-> ti, blocks |-> bs, foldable |-> f]

\* The kinds of the node classes (the subclasses of Node).
NodeKinds == {"Document", "Heading", "TextInline", "LinkInline", "Paragraph",
              "CodeBlock", "ListItem", "BulletList", "QuoteBlock", "Tab", "TabBlock",
              "Admonition"}

\* isinstance(item, (TextInline, LinkInline))
IsInline(x) == x.k \in {"TextInline", "LinkInline"}

\* isinstance(item, str): a Token is a str.
IsStr(x) == x.k \in {"str", "Token"}

\* [item for item in items if isinstance(item, (TextInline, LinkInline))]
Inlines(items) == SelectSeq(items, IsInline)

\* s.strip('"')
RECURSIVE LStrip(_), RStrip(_)
LStrip(s) == IF s # <<>> /\ Head(s) = "\"" THEN LStrip(Tail(s)) ELSE s
RStrip(s) == IF s # <<>> /\ s[Len(s)] = "\"" THEN RStrip(SubSeq(s, 1, Len(s) - 1)) ELSE s
Strip(s) == RStrip(LStrip(s))

\* MarkdownTransformer.start
start(items) == Document(items)

\* MarkdownTransformer.heading: the Heading of parser.py has the fields
\* level and text, and the call passes inlines.
heading(items) ==
    LET hash_token == items[1]
        inlines == Inlines(items)
        level == Len(hash_token.value)
    IN Error("TypeError")

\* MarkdownTransformer.paragraph
paragraph(items) == Paragraph(Inlines(items))

\* MarkdownTransformer.link
link(items) ==
    IF Len(items) # 2 THEN Error("ValueError")
    ELSE LinkInline(items[1].value, items[2].value)

\* MarkdownTransformer.text
text(items) == TextInline(items[1].value)

\* MarkdownTransformer.code_lines
code_lines(items) == Str(items[1].value)

\* MarkdownTransformer.code_block
code_block(items) ==
    IF Len(items) = 2 /\ items[1].k = "Token" /\ items[1].type = "LANGUAGE"
    THEN CodeBlock(Str(items[1].value), items[2])
    ELSE CodeBlock(None, items[1])

\* MarkdownTransformer.list_item
list_item(items) ==
    LET inline_nodes == Inlines(items)
        nested == SelectSeq(items, LAMBDA x : x.k = "ListItem")
    IN ListItem((IF inline_nodes # <<>> THEN <<Paragraph(inline_nodes)>> ELSE <<>>)
                \o (IF nested # <<>> THEN <<BulletList(nested)>> ELSE <<>>))

\* MarkdownTransformer.list_block
list_block(items) == BulletList(items)

\* MarkdownTransformer.quote_block: the loop over items, with the lines
\* flushed so far and the pieces of the line being gathered.
RECURSIVE QuoteLoop(_, _, _)
QuoteLoop(items, lines, temp) ==
    IF items = <<>> THEN (IF temp # <<>> THEN Append(lines, temp) ELSE lines)
    ELSE LET item == Head(items)
         IN IF IsInline(item)
            THEN QuoteLoop(Tail(items), lines,
                           temp \o (IF item.k = "TextInline" THEN item.value ELSE item.text))
            ELSE QuoteLoop(Tail(items),
                           IF temp # <<>> THEN Append(lines, temp) ELSE lines, <<>>)

quote_block(items) == QuoteBlock(QuoteLoop(items, <<>>, <<>>))

\* MarkdownTransformer.tab_header
tab_header(items) ==
    LET strings == SelectSeq(items, LAMBDA i : i.k = "Token" /\ i.type = "STRING")
    IN IF strings = <<>> THEN Error("IndexError")
       ELSE Str(Strip(strings[1].value))

\* MarkdownTransformer.tab_body
tab_body(items) == [k |-> "list", items |-> items]

\* MarkdownTransformer.tab_block: every title gets the one list blocks, the
\* last list among the items.
tab_block(items) ==
    LET titles == SelectSeq(items, IsStr)
        lists == SelectSeq(items, LAMBDA x : x.k = "list")
        bs == IF lists = <<>> THEN <<>> ELSE lists[Len(lists)].items
    IN TabBlock([i \in 1..Len(titles) |-> Tab(titles[i].value, bs)])

\* An admonition whose foldable flag is False whatever the tag.
admonition_not_foldable(items) ==
    Admonition(items[1].value, Strip(items[2].value), SubSeq(items, 3, Len(items)), FALSE)

\* MarkdownTransformer.admonition
admonition(items) ==
    LET tag_token == items[1]
        title_token == items[2]
        bs == SubSeq(items, 3, Len(items))
        tag == tag_token.value
        title == Strip(title_token.value)
        foldable == (tag = QUEST3)
    IN Admonition(tag, title, bs, foldable)

\* The method the transformer calls for a tree named data; a tree with no
\* method (block) stays a tree over its transformed children.
Callback(data, items) ==
    CASE data = "start" -> start(items)
      [] data = "heading" -> heading(items)
      [] data = "paragraph" -> paragraph(items)
      [] data = "link" -> link(items)
      [] data = "text" -> text(items)
      [] data = "code_lines" -> code_lines(items)
      [] data = "code_block" -> code_block(items)
      [] data = "list_item" -> list_item(items)
      [] data = "list_block" -> list_block(items)
      [] data = "quote_block" -> quote_block(items)
      [] data = "tab_header" -> tab_header(items)
      [] data = "tab_body" -> tab_body(items)
      [] data = "tab_block" -> tab_block(items)
      [] data = "admonition" -> admonition(items)
      [] OTHER -> [k |-> "Tree", data |-> data, children |-> items]

\* Transformer.transform: bottom-up; the first exception of a method ends it.
\* Two tokens are equal when their type and text are: a transformed value
\* keeps no position.
RECURSIVE transform(_)
transform(t) ==
    IF t.k = "Token" THEN [k |-> "Token", type |-> t.type, value |-> t.value]
    ELSE LET items == [i \in 1..Len(t.children) |-> transform(t.children[i])]
             failed == {i \in 1..Len(items) : items[i].k = "Error"}
         IN IF failed # {}
            THEN items[CHOOSE i \in failed : \A j \in failed : i <= j]
            ELSE Callback(t.data, items)

\* parse: the text parsed and transformed, or the exception raised.
TransformOrRaise(r, n) ==
    IF r.ok /\ r.pos = n + 1 THEN transform(r.items[1]) ELSE Error("UnexpectedInput")

parse(in) == TransformOrRaise(ParseTree(in), Len(in))

---------------------------------------------------------------------------
(* The input texts: up to MaxLines lines, each one of the templates below, *)
(* cut into lexemes.                                                       *)

Quoted(w) == <<"\"">> \o w \o <<"\"">>

W_note == <<"n", "o", "t", "e">>
W_body == <<"b", "o", "d", "y", " ", "t", "e", "x", "t">>

\* A line whose indentation the lexer has turned into INDENT and DEDENT
\* tokens stands between the two; the indentation is four spaces.
Templates ==
    { <<<<"#">>, SP, <<"T">>, NL>>,                 \* # T
      <<BANG3, SP, Quoted(W_note), NL>>,            \* !!! "note"
      <<QUEST3, SP, Quoted(W_note), NL>>,           \* ??? "note"
      <<BANG3, SP, W_note, NL, NL>>,                \* !!! note, and a blank line
      <<BANG3 \o SP \o W_note, NL, NL>>,            \* the same, lexed as one TEXT
      <<INDENT, W_body, NL, NL, DEDENT>>,           \* an indented line, and a blank line
      <<<<" ", " ", " ", " ">> \o W_body, NL, NL>>,  \* the same, lexed as one TEXT
      <<INDENT, <<"-">>, SP, <<"a">>, NL, DEDENT>>, \* an indented - a
      <<EQ3, SP, Quoted(<<"A">>), NL>>,             \* === "A"
      <<EQ3, SP, Quoted(<<"B">>), NL>>,             \* === "B"
      <<FENCE, <<"p", "y">>, NL>>,                  \* ```py
      <<FENCE, NL>>,                                \* ```
      <<GT, SP, <<"q">>, NL>>,                      \* > q
      <<<<"-">>, SP, <<"a">>, NL>>,                 \* - a
      <<<<"*">>, <<"b">>, NL>>,                     \* *b
      <<<<"x">>, NL>>,                              \* x
      <<LSQB, <<"s">>, RSQB, LPAR, <<"u">>, RPAR, NL>>,   \* [s](u)
      <<NL>> }                                      \* a blank line

\* The lexemes of a sequence of lines.
RECURSIVE Concat(_)
Concat(ls) == IF ls = <<>> THEN <<>> ELSE Head(ls) \o Concat(Tail(ls))

\* NEWLINE is (CR? LF)+ : the lexer takes a run of line ends as one token.
RECURSIVE MergeNewlines(_)
MergeNewlines(in) ==
    IF Len(in) < 2 THEN in
    ELSE IF NEWLINE(in[1]) /\ NEWLINE(in[2]) /\ in[1] \notin Opaque /\ in[2] \notin Opaque
         THEN MergeNewlines(<<in[1] \o in[2]>> \o SubSeq(in, 3, Len(in)))
         ELSE <<in[1]>> \o MergeNewlines(Tail(in))

Inputs ==
    { MergeNewlines(Concat(ls)) : ls \in UNION { [1..n -> Templates] : n \in 0..MaxLines } }

---------------------------------------------------------------------------
(* parse(text) as a state machine: parser.parse(text) reads one block of   *)
(* start: block+ at a step, then MarkdownTransformer().transform(tree)     *)
(* runs on the finished tree.                                              *)

NoTree == Tree("none", <<>>, 0)

Init ==
    /\ input \in Inputs
    /\ pos = 1
    /\ pc = "parse"
    /\ blocks = <<>>
    /\ tree = NoTree
    /\ result = None

\* The parser raises (UnexpectedCharacters, UnexpectedToken, UnexpectedEOF).
Raise(p) ==
    /\ pc' = "error"
    /\ pos' = p
    /\ result' = Error("UnexpectedInput")
    /\ UNCHANGED <<input, blocks, tree>>

\* The parser is at the start of a block of the alt-th alternative of block
\* (0: of none).
AtBlock(alt) == pc = "parse" /\ PickAlt(block_rule, input, pos) = alt

\* The parser is at the end of the text, with at least one block read.
AtEnd == pc = "parse" /\ pos = Len(input) + 1 /\ blocks # <<>>

\* One block of start: block+ read at the cursor.
Block ==
    \E r \in {Derive("block", input, pos)} :
        IF r.ok
        THEN /\ blocks' = blocks \o r.items
             /\ pos' = r.pos
             /\ UNCHANGED <<input, pc, tree, result>>
        ELSE Raise(r.pos)

\* The alternative of block the parser takes at the cursor.
ParseHeading ==
    /\ AtBlock(1)
    /\ Block

ParseAdmonition ==
    /\ AtBlock(2)
    /\ Block

ParseTabBlock ==
    /\ AtBlock(3)
    /\ Block

ParseCodeBlock ==
    /\ AtBlock(4)
    /\ Block

ParseQuoteBlock ==
    /\ AtBlock(5)
    /\ Block

ParseListBlock ==
    /\ AtBlock(6)
    /\ Block

ParseParagraph ==
    /\ AtBlock(7)
    /\ Block

\* The end of the text taken for granted once a block has been read.
EndOfInput_early ==
    /\ pc = "parse"
    /\ blocks # <<>>
    /\ tree' = Tree("start", blocks, 1)
    /\ pc' = "transform"
    /\ UNCHANGED <<input, pos, blocks, result>>

\* The end of the text after at least one block: the tree is complete.
EndOfInput ==
    /\ AtEnd
    /\ tree' = Tree("start", blocks, 1)
    /\ pc' = "transform"
    /\ UNCHANGED <<input, pos, blocks, result>>

\* No block starts at the cursor, or the text holds no block at all.
Unexpected ==
    /\ AtBlock(0)
    /\ ~AtEnd
    /\ Raise(pos)

\* MarkdownTransformer().transform(tree)
Transform ==
    /\ pc = "transform"
    /\ result' = transform(tree)
    /\ pc' = IF result'.k = "Error" THEN "error" ELSE "done"
    /\ UNCHANGED <<input, pos, blocks, tree>>

Next ==
    \/ ParseHeading
    \/ ParseAdmonition
    \/ ParseTabBlock
    \/ ParseCodeBlock
    \/ ParseQuoteBlock
    \/ ParseListBlock
    \/ ParseParagraph
    \/ EndOfInput
    \/ Unexpected
    \/ Transform

Spec == Init /\ [][Next]_vars

---------------------------------------------------------------------------
(* What the properties of Part I speak of. *)

\* The trees of t: t and the trees below it.
RECURSIVE Subtrees(_)
Subtrees(t) ==
    IF t.k # "Tree" THEN {}
    ELSE {t} \cup UNION { Subtrees(t.children[i]) : i \in 1..Len(t.children) }

\* The tokens of t.
RECURSIVE TokensOf(_)
TokensOf(t) ==
    IF t.k = "Token" THEN {t}
    ELSE UNION { TokensOf(t.children[i]) : i \in 1..Len(t.children) }

\* The blocks parsed so far, as a tree.
Parsed == Tree("start", blocks, 1)

\* The values a value of the transformer holds.
Children(v) ==
    CASE v.k \in {"Document", "Admonition", "Tab", "ListItem"} -> v.blocks
      [] v.k = "Tree" -> v.children
      [] v.k = "TabBlock" -> v.tabs
      [] v.k = "BulletList" -> v.items
      [] v.k = "Paragraph" -> v.inlines
      [] OTHER -> <<>>

\* v and every value below it.
RECURSIVE Descendants(_)
Descendants(v) ==
    {v} \cup UNION { Descendants(Children(v)[i]) : i \in 1..Len(Children(v)) }

\* A block without the tree named block the transformer leaves around it.
Unwrap(b) == IF b.k = "Tree" /\ b.data = "block" /\ Len(b.children) = 1 THEN b.children[1] ELSE b
UnwrapAll(bs) == [i \in 1..Len(bs) |-> Unwrap(bs[i])]

\* The characters of the text the lexemes were cut from.
RECURSIVE TextOf(_)
TextOf(in) ==
    IF in = <<>> THEN <<>>
    ELSE (IF Head(in) = INDENT THEN <<" ", " ", " ", " ">>
          ELSE IF Head(in) = DEDENT THEN <<>>
          ELSE Head(in)) \o TextOf(Tail(in))

\* Whether s starts with the characters of m.
StartsWith(s, m) == Len(s) >= Len(m) /\ SubSeq(s, 1, Len(m)) = m

\* Whether lexeme p of in is the first of its line.
RECURSIVE LineStart(_, _)
LineStart(in, p) ==
    \/ p = 1
    \/ /\ in[p - 1] \notin Opaque
       /\ NEWLINE(in[p - 1])
    \/ /\ in[p - 1] \in Opaque
       /\ LineStart(in, p - 1)

\* The parse has ended: parse returned or raised.
Ended == pc \in {"done", "error"}

\* The position of the token of the given type among the children of t (the
\* last one of that type).
PosOf(t, type) ==
    LET toks == {i \in 1..Len(t.children) :
                    t.children[i].k = "Token" /\ t.children[i].type = type}
    IN t.children[CHOOSE i \in toks : \A j \in toks : j <= i].start_pos

\* The body of a tree that holds INDENT block+ DEDENT: the lexemes between
\* the two, the indentation taken off.
Body(t) == SubSeq(input, PosOf(t, "INDENT") + 1, PosOf(t, "DEDENT") - 1)

\* The blocks parse gives for a body of its own (none for an empty body).
BlocksOf(d) == IF d.k = "Document" THEN d.blocks ELSE <<>>
Reparsed(body) == IF body = <<>> THEN <<>> ELSE BlocksOf(parse(body))

---------------------------------------------------------------------------
(* Totality. *)

\* What is left of the parse: the lexemes to read and the steps after them.
Measure ==
    2 * (Len(input) + 1 - pos)
    + (IF pc = "parse" THEN 2 ELSE IF pc = "transform" THEN 1 ELSE 0)

---------------------------------------------------------------------------
(* Admonitions and tabs. *)

\* The text of scenario 5, !!! note, a blank line, a line indented by four
\* spaces, a blank line, as the lexer can cut it: at the marker, the title
\* and the indentation, or each line as one TEXT.
Scenario5 ==
    { <<BANG3, SP, W_note, NL \o NL, INDENT, W_body, NL \o NL, DEDENT>>,
      <<BANG3 \o SP \o W_note, NL \o NL, <<" ", " ", " ", " ">> \o W_body, NL \o NL>> }

\* C2: parsing the text of scenario 5 yields a Document with exactly one
\* top-level block, an Admonition with tag '!!!', title 'note' and blocks
\* equal to one Paragraph holding the single Text 'body text'.
C2_Scenario5 ==
    (Ended /\ input \in Scenario5) =>
        /\ result.k = "Document"
        /\ Len(result.blocks) = 1
        /\ Unwrap(result.blocks[1]).k = "Admonition"
        /\ Unwrap(result.blocks[1]).tag = BANG3
        /\ Unwrap(result.blocks[1]).title = W_note
        /\ UnwrapAll(Unwrap(result.blocks[1]).blocks) = <<Paragraph(<<TextInline(W_body)>>)>>

\* C3: for every Admonition and every Tab of the tree parse returns, parse
\* run on the body of the container alone gives a Document whose blocks
\* equal the blocks stored in the container.
C3_RecursiveClosure ==
    pc = "done" =>
        \A t \in Subtrees(tree) :
            /\ t.data = "admonition" => transform(t).blocks = Reparsed(Body(t))
            /\ t.data = "tab_block" =>
                  \A i \in 1..Len(transform(t).tabs) :
                      transform(t).tabs[i].blocks = Reparsed(Body(t.children[Len(t.children)]))

\* The header trees of a tab_block tree, in order.
Headers(tb) == SelectSeq(tb.children, LAMBDA c : c.k = "Tree" /\ c.data = "tab_header")

\* The body region of the i-th tab of a tab_block tree: the lexemes after
\* its header and before the next header or the end of the group.  The
\* grammar puts the headers of a group next to each other, so the region of
\* every header but the last is empty, and the last has the body.
Region(tb, i) ==
    IF i < Len(Headers(tb)) THEN <<>>
    ELSE Body(tb.children[Len(tb.children)])

\* The blocks of a list of blocks, the tokens the transformer left among
\* them apart.
Nodes(bs) == SelectSeq(bs, LAMBDA b : b.k # "Token")

\* C5: each Tab's blocks are the result of parsing the tab's own body
\* region: two tabs of one group with different bodies have different
\* blocks.
C5_TabsOwnBody ==
    pc = "done" =>
        \A tb \in {u \in Subtrees(tree) : u.data = "tab_block"} :
            \A i, j \in 1..Len(transform(tb).tabs) :
                /\ Nodes(transform(tb).tabs[i].blocks) = Reparsed(Region(tb, i))
                /\ Region(tb, i) # Region(tb, j) =>
                      transform(tb).tabs[i].blocks # transform(tb).tabs[j].blocks

\* C6: for every Admonition parse produces, foldable is true exactly when
\* the tag is '???' and false exactly when the tag is '!!!'.
C6_FoldableByTag ==
    pc = "done" =>
        \A n \in Descendants(result) :
            n.k = "Admonition" =>
                /\ n.foldable <=> n.tag = QUEST3
                /\ ~n.foldable <=> n.tag = BANG3

\* parse has returned a tree with an Admonition of tag '???', foldable, and
\* a state with one of tag '!!!', not foldable, is reachable as well.
C6_Witness ==
    /\ pc = "done"
    /\ \E n \in Descendants(result) :
          n.k = "Admonition" /\ n.tag = QUEST3 /\ n.foldable

---------------------------------------------------------------------------
(* Fenced code. *)

\* The characters after the first line of a text, without the end of the
\* last line: the lines after the first joined by newline.
RECURSIVE AfterFirstLine(_)
AfterFirstLine(chars) ==
    IF chars = <<>> THEN <<>>
    ELSE IF Head(chars) = "\n"
         THEN (IF Len(chars) > 1 /\ chars[Len(chars)] = "\n"
               THEN SubSeq(chars, 2, Len(chars) - 1) ELSE Tail(chars))
         ELSE AfterFirstLine(Tail(chars))

\* A text that opens a fence on its first line and has no other fence.
Unterminated(in) ==
    /\ in # <<>>
    /\ in[1] = FENCE
    /\ \A p \in 2..Len(in) : ~StartsWith(in[p], FENCE)

\* C4: for a text whose fence is never closed parse returns normally with a
\* CodeBlock whose content is all the remaining lines joined by newline,
\* and the cursor is at the end of the input.
C4_UnterminatedFence ==
    (Ended /\ Unterminated(input)) =>
        /\ result.k = "Document"
        /\ pos = Len(input) + 1
        /\ Len(result.blocks) = 1
        /\ Unwrap(result.blocks[1]).k = "CodeBlock"
        /\ Unwrap(result.blocks[1]).content = Str(AfterFirstLine(TextOf(input)))

---------------------------------------------------------------------------
(* Source lines. *)

\* C8: every node of the tree parse returns carries a line attribute equal
\* to the 1-based line of the input where the node begins, the nodes inside
\* an Admonition or a Tab included.
C8_LineAttribute ==
    pc = "done" =>
        \A t \in Subtrees(tree) :
            transform(t).k \in NodeKinds =>
                /\ "line" \in DOMAIN transform(t)
                /\ transform(t).line = t.line

---------------------------------------------------------------------------
(* Paragraphs. *)

\* Whether a line that starts with lexeme s is one of a fence, a heading, a
\* bullet, a quote, an admonition or a tab header.
StartsWithMarker(s) ==
    \/ StartsWith(s, FENCE)
    \/ HASHES(s)
    \/ \E n \in 1..6 : Len(s) > n /\ HASHES(SubSeq(s, 1, n)) /\ s[n + 1] \in {" ", "\t"}
    \/ s[1] \in {"-", "+", "*", ">"}
    \/ StartsWith(s, BANG3)
    \/ StartsWith(s, QUEST3)
    \/ StartsWith(s, EQ3)

\* C9: no line that starts with a code fence, a heading, a bullet marker,
\* '>', an admonition marker or '===' is ever taken into a Paragraph as a
\* line after its first.
C9_ParagraphStops ==
    \A t \in Subtrees(Parsed) :
        t.data = "paragraph" =>
            \A tok \in TokensOf(t) :
                (tok.line > t.line /\ LineStart(input, tok.start_pos)) =>
                    ~StartsWithMarker(tok.value)

\* A paragraph has been parsed and the line after it starts with a marker
\* and has become a block of its own.
C9_Witness ==
    /\ pc = "done"
    /\ \E t \in Subtrees(tree) :
          /\ t.data = "paragraph"
          /\ \E p \in 2..Len(input) :
                /\ LineStart(input, p)
                /\ input[p] \notin Opaque
                /\ StartsWithMarker(input[p])
                /\ PickAlt(block_rule, input, p) \in 1..6
                /\ \E tok \in TokensOf(t) : tok.type = "NEWLINE" /\ tok.start_pos = p - 1

---------------------------------------------------------------------------
(* Part II.  The inline rules of the grammar on single characters: the     *)
(* text of one line, which the grammar reads as paragraph: inline+ NEWLINE+ *)
(* with ?inline: link | TEXT and link: "[" TEXT "]" "(" URL ")".  The input *)
(* is the line without its end; pos is the character the lexer is at; pc   *)
(* is what the parser has read of the line (start: nothing; inline: one    *)
(* inline or more; link1 .. link5: the tokens of a link up to "[", TEXT,   *)
(* "]", "(" and URL); blocks holds the trees of the inlines read; tree     *)
(* holds the tokens of the link being read; result is the Paragraph.       *)

\* The length of an input line.
MaxChars == 6

Alphabet == {"a", "[", "]", "(", ")", " "}

Lines == UNION { [1..n -> Alphabet] : n \in 0..MaxChars }

\* The position after the longest match of TEXT: /[^\[\]\n]+/ at p.
RECURSIVE TextEnd(_, _)
TextEnd(in, p) == IF p <= Len(in) /\ TEXT(<<in[p]>>) THEN TextEnd(in, p + 1) ELSE p

\* The position after the longest match of URL: /[^()\s]+/ at p.
RECURSIVE UrlEnd(_, _)
UrlEnd(in, p) == IF p <= Len(in) /\ URL(<<in[p]>>) THEN UrlEnd(in, p + 1) ELSE p

\* The token of the given type that ends before position q.
Lexed(type, in, p, q) ==
    [k |-> "Token", type |-> type, value |-> SubSeq(in, p, q - 1), line |-> 1,
     start_pos |-> p]

\* The terminals the parser accepts in each of its states (the contextual
\* lexer matches no other).
Accepts(state) ==
    CASE state = "start" -> {"TEXT", "LSQB"}
      [] state = "inline" -> {"TEXT", "LSQB", "NEWLINE"}
      [] state = "link1" -> {"TEXT"}
      [] state = "link2" -> {"RSQB"}
      [] state = "link3" -> {"LPAR"}
      [] state = "link4" -> {"URL"}
      [] state = "link5" -> {"RPAR"}
      [] OTHER -> {}

\* Whether a token of the given type starts at the cursor.
At(type) ==
    /\ type \in Accepts(pc)
    /\ IF type = "NEWLINE" THEN pos = Len(input) + 1
       ELSE pos <= Len(input) /\ Match(type, <<input[pos]>>)

\* %ignore /[ ]+$/ : spaces up to the end of the line, where no terminal
\* the parser accepts matches them.
AtIgnored ==
    /\ pc \in {"start", "inline", "link1", "link2", "link3", "link4", "link5"}
    /\ pos <= Len(input)
    /\ \A q \in pos..Len(input) : input[q] = " "
    /\ \A type \in Accepts(pc) : ~At(type)

InitInline ==
    /\ input \in Lines
    /\ pos = 1
    /\ pc = "start"
    /\ blocks = <<>>
    /\ tree = NoTree
    /\ result = None

\* TEXT as an inline of the line: ?inline: TEXT -> text
LexText ==
    /\ pc \in {"start", "inline"}
    /\ At("TEXT")
    /\ blocks' = Append(blocks,
                        Tree("text", <<Lexed("TEXT", input, pos, TextEnd(input, pos))>>, 1))
    /\ pos' = TextEnd(input, pos)
    /\ pc' = "inline"
    /\ UNCHANGED <<input, tree, result>>

\* "[" opens a link.
LexLSQB ==
    /\ pc \in {"start", "inline"}
    /\ At("LSQB")
    /\ tree' = Tree("link", <<>>, 1)
    /\ pos' = pos + 1
    /\ pc' = "link1"
    /\ UNCHANGED <<input, blocks, result>>

\* TEXT as the text of a link.
LexLinkText ==
    /\ pc = "link1"
    /\ At("TEXT")
    /\ tree' = Tree("link", <<Lexed("TEXT", input, pos, TextEnd(input, pos))>>, 1)
    /\ pos' = TextEnd(input, pos)
    /\ pc' = "link2"
    /\ UNCHANGED <<input, blocks, result>>

LexRSQB ==
    /\ At("RSQB")
    /\ pos' = pos + 1
    /\ pc' = "link3"
    /\ UNCHANGED <<input, blocks, tree, result>>

LexLPAR ==
    /\ At("LPAR")
    /\ pos' = pos + 1
    /\ pc' = "link4"
    /\ UNCHANGED <<input, blocks, tree, result>>

LexURL ==
    /\ At("URL")
    /\ tree' = Tree("link", Append(tree.children,
                                   Lexed("URL", input, pos, UrlEnd(input, pos))), 1)
    /\ pos' = UrlEnd(input, pos)
    /\ pc' = "link5"
    /\ UNCHANGED <<input, blocks, result>>

\* ")" ends the link: the link rule is reduced, and ?inline: link -> link
\* puts its tree into a tree named link.
LexRPAR ==
    /\ At("RPAR")
    /\ blocks' = Append(blocks, Tree("link", <<tree>>, 1))
    /\ tree' = NoTree
    /\ pos' = pos + 1
    /\ pc' = "inline"
    /\ UNCHANGED <<input, result>>

\* The spaces at the end of the line are skipped.
LexIgnore ==
    /\ AtIgnored
    /\ pos' = Len(input) + 1
    /\ UNCHANGED <<input, pc, blocks, tree, result>>

\* The end of the line ends the paragraph, and the transformer runs on it.
LexNewline ==
    /\ At("NEWLINE")
    /\ tree' = Tree("paragraph",
                    Append(blocks, Lexed("NEWLINE", input \o NL, pos, pos + 1)), 1)
    /\ result' = transform(tree')
    /\ pc' = IF result'.k = "Error" THEN "error" ELSE "done"
    /\ UNCHANGED <<input, pos, blocks>>

\* No terminal the parser accepts starts at the cursor: the parser raises.
LexUnexpected ==
    /\ pc \in {"start", "inline", "link1", "link2", "link3", "link4", "link5"}
    /\ \A type \in Accepts(pc) : ~At(type)
    /\ ~AtIgnored
    /\ Raise(pos)

NextInline ==
    \/ LexText
    \/ LexLSQB
    \/ LexLinkText
    \/ LexRSQB
    \/ LexLPAR
    \/ LexURL
    \/ LexRPAR
    \/ LexIgnore
    \/ LexNewline
    \/ LexUnexpected

SpecInline == InitInline /\ [][NextInline]_vars

\* Whether a line holds a [display-text](url) pattern.
HasLink(s) ==
    \E a, b, c \in 1..Len(s) :
        /\ a + 1 < b
        /\ b + 2 < c
        /\ s[a] = "["
        /\ s[b] = "]"
        /\ s[b + 1] = "("
        /\ s[c] = ")"

\* C7: for every line that holds no [display-text](url) pattern the inline
\* rules give exactly one span, a Text whose value is the line.
C7_InlineRoundTrip ==
    (Ended /\ input # <<>> /\ ~HasLink(input)) =>
        /\ result.k = "Paragraph"
        /\ result.inlines = <<TextInline(input)>>

---------------------------------------------------------------------------
(* Part III.  The line cursor, the block classifier and the block parsers  *)
(* of the hand-written engine, as the specification describes them (4.1 to *)
(* 4.4, 9); the code of that engine is not in src/.  One step is one test  *)
(* of the cursor and the advance, the call or the return that follows it.  *)
(* input holds the lines of the cursor in use, each a sequence of          *)
(* characters; pos is the cursor, the index of the current line; pc is the *)
(* loop the engine is in; blocks is the stack of the parses suspended for  *)
(* a recursive parse, each with its lines, its cursor, the loop to return  *)
(* to and its pending body; tree is the pending body of the container      *)
(* being read; result is the line the last advance() returned.             *)

\* The number of lines of a text.
MaxCursorLines == 3

Indent4 == <<" ", " ", " ", " ">>
COLON3 == <<":", ":", ":">>

\* The lines of the texts.
CursorLines ==
    { <<>>,                                   \* a blank line
      FENCE,                                  \* ```
      <<"#", " ", "T">>,                      \* # T
      <<"-", " ", "a">>,                      \* - a
      <<"*", " ", "b">>,                      \* * b
      <<">", " ", "q">>,                      \* > q
      BANG3 \o <<" ", "n">>,                  \* !!! n
      EQ3 \o <<" ", "A">>,                    \* === A
      COLON3 \o <<" ", "A">>,                 \* ::: A
      COLON3,                                 \* :::
      <<"x">>,                                \* x
      Indent4 \o <<"x">>,                     \* an indented x
      Indent4 \o FENCE,                       \* an indented ```
      Indent4 \o BANG3 \o <<" ", "n">>,       \* an indented !!! n
      Indent4 \o Indent4 \o <<"x">> }         \* x indented twice

Texts == UNION { [1..n -> CursorLines] : n \in 0..MaxCursorLines }

\* s without the whitespace at its start, at its end, at both.
RECURSIVE LTrim(_), RTrim(_)
LTrim(s) == IF s # <<>> /\ Head(s) \in {" ", "\t"} THEN LTrim(Tail(s)) ELSE s
RTrim(s) ==
    IF s # <<>> /\ s[Len(s)] \in {" ", "\t"} THEN RTrim(SubSeq(s, 1, Len(s) - 1)) ELSE s
Trim(s) == RTrim(LTrim(s))

\* 4.1 Line Cursor.
atEnd == pos > Len(input)
peek == IF atEnd THEN <<>> ELSE input[pos]

\* advance(): returns the current line, then moves forward one position.
advance ==
    /\ result' = peek
    /\ pos' = pos + 1

\* 4.2 Block Classifier: the tests of its rules, and the first that matches.
IsBlank(l) == Trim(l) = <<>>
IsFence(l) == StartsWith(l, FENCE)
IsHeading(l) ==
    \E n \in 1..6 :
        /\ Len(l) > n
        /\ \A i \in 1..n : l[i] = "#"
        /\ l[n + 1] \in {" ", "\t"}
IsBullet(l) == l # <<>> /\ l[1] \in {"-", "+", "*"}
IsQuote(l) == StartsWith(l, GT)
IsAdmonition(l) == StartsWith(l, BANG3) \/ StartsWith(l, QUEST3)
IsTabGroup(l) == StartsWith(l, EQ3)

Classify(l) ==
    IF IsFence(l) THEN "code"
    ELSE IF IsHeading(l) THEN "heading"
    ELSE IF IsBullet(l) THEN "list"
    ELSE IF IsQuote(l) THEN "quote"
    ELSE IF IsAdmonition(l) THEN "admonition"
    ELSE IF IsTabGroup(l) THEN "tabs"
    ELSE "paragraph"

\* The driver is at a line that is not blank, of the given class.
Dispatch(class) ==
    /\ pc = "driver"
    /\ ~atEnd
    /\ ~IsBlank(peek)
    /\ Classify(peek) = class

\* 4.3: the tests of the loops of the leaf parsers.
ClosesFence(l) == StartsWith(Trim(l), FENCE)
ContinuesList(l) == StartsWith(Trim(l), <<"-", " ">>)
ContinuesQuote(l) == StartsWith(LTrim(l), GT)
EndsParagraph(l) ==
    \/ IsBlank(l)
    \/ IsFence(l)
    \/ IsHeading(l)
    \/ Len(l) > 1 /\ IsBullet(l) /\ l[2] \in {" ", "\t"}
    \/ IsQuote(l)
    \/ IsAdmonition(l)
    \/ StartsWith(l, COLON3)

\* 4.4: the tests of the loops of the container parsers.
HasIndent(l) == StartsWith(l, Indent4) \/ StartsWith(l, <<"\t">>)
StripIndent(l) ==
    IF StartsWith(l, Indent4) THEN SubSeq(l, 5, Len(l)) ELSE Tail(l)
IsEndOfGroup(l) == Trim(l) = COLON3
IsNewTab(l) == StartsWith(l, COLON3) /\ ~IsEndOfGroup(l)

\* The pending body of a container: the lines gathered, and for a tab group
\* whether a tab is open.
Pending(open, lines) == [k |-> "Pending", open |-> open, lines |-> lines]
NoPending == Pending(FALSE, <<>>)

\* A recursive parse of lines: the engine goes on with a cursor of its own
\* over them, and comes back to the loop back with its cursor at the line
\* at and the body pending there.
SubParse(lines, back, pending, at) ==
    /\ blocks' = Append(blocks, [input |-> input, pos |-> at, pc |-> back,
                                 tree |-> pending])
    /\ input' = lines
    /\ pos' = 1
    /\ pc' = "driver"
    /\ tree' = NoPending

InitCursor ==
    /\ input \in Texts
    /\ pos = 1
    /\ pc = "driver"
    /\ blocks = <<>>
    /\ tree = NoPending
    /\ result = <<>>

\* Document Driver: a blank line is consumed and discarded.
DriverBlank ==
    /\ pc = "driver"
    /\ ~atEnd
    /\ IsBlank(peek)
    /\ advance
    /\ UNCHANGED <<input, pc, blocks, tree>>

\* Document Driver: the input of the top-level parse is exhausted.
DriverEnd ==
    /\ pc = "driver"
    /\ atEnd
    /\ blocks = <<>>
    /\ pc' = "done"
    /\ UNCHANGED <<input, pos, blocks, tree, result>>

\* Document Driver: the input of a recursive parse is exhausted, and the
\* container parser that called it goes on.
DriverReturn ==
    /\ pc = "driver"
    /\ atEnd
    /\ blocks # <<>>
    /\ input' = blocks[Len(blocks)].input
    /\ pos' = blocks[Len(blocks)].pos
    /\ pc' = blocks[Len(blocks)].pc
    /\ tree' = blocks[Len(blocks)].tree
    /\ blocks' = SubSeq(blocks, 1, Len(blocks) - 1)
    /\ UNCHANGED result

\* Heading: consume one line.
HeadingLine ==
    /\ Dispatch("heading")
    /\ advance
    /\ UNCHANGED <<input, pc, blocks, tree>>

\* Fenced code block: consume the opening fence line.
FenceOpen ==
    /\ Dispatch("code")
    /\ advance
    /\ pc' = "code"
    /\ UNCHANGED <<input, blocks, tree>>

\* Fenced code block: consume a line that does not close the fence.
FenceLine ==
    /\ pc = "code"
    /\ ~atEnd
    /\ ~ClosesFence(peek)
    /\ advance
    /\ UNCHANGED <<input, pc, blocks, tree>>

\* The closing fence consumed without a test of the end of the input.
FenceClose_unguarded ==
    /\ pc = "code"
    /\ atEnd \/ ClosesFence(peek)
    /\ advance
    /\ pc' = "driver"
    /\ UNCHANGED <<input, blocks, tree>>

\* Fenced code block: the closing fence is consumed, or the input has ended
\* (an unterminated fence).
FenceClose ==
    /\ pc = "code"
    /\ atEnd \/ ClosesFence(peek)
    /\ IF atEnd THEN UNCHANGED <<pos, result>> ELSE advance
    /\ pc' = "driver"
    /\ UNCHANGED <<input, blocks, tree>>

\* Bullet list: the dispatcher opens it on any bullet marker.
BulletOpen ==
    /\ Dispatch("list")
    /\ pc' = "list"
    /\ UNCHANGED <<input, pos, blocks, tree, result>>

\* Bullet list: consume a line that starts with "- ".
BulletLine ==
    /\ pc = "list"
    /\ ~atEnd
    /\ ContinuesList(peek)
    /\ advance
    /\ UNCHANGED <<input, pc, blocks, tree>>

\* Bullet list: stop at the first line that does not match.
BulletEnd ==
    /\ pc = "list"
    /\ atEnd \/ ~ContinuesList(peek)
    /\ pc' = "driver"
    /\ UNCHANGED <<input, pos, blocks, tree, result>>

QuoteOpen ==
    /\ Dispatch("quote")
    /\ pc' = "quote"
    /\ UNCHANGED <<input, pos, blocks, tree, result>>

\* Quote block: consume a line that starts with ">".
QuoteLine ==
    /\ pc = "quote"
    /\ ~atEnd
    /\ ContinuesQuote(peek)
    /\ advance
    /\ UNCHANGED <<input, pc, blocks, tree>>

QuoteEnd ==
    /\ pc = "quote"
    /\ atEnd \/ ~ContinuesQuote(peek)
    /\ pc' = "driver"
    /\ UNCHANGED <<input, pos, blocks, tree, result>>

\* Paragraph: consume the line the dispatcher classified.
ParagraphOpen ==
    /\ Dispatch("paragraph")
    /\ advance
    /\ pc' = "paragraph"
    /\ UNCHANGED <<input, blocks, tree>>

\* Paragraph: consume a further line.
ParagraphLine ==
    /\ pc = "paragraph"
    /\ ~atEnd
    /\ ~EndsParagraph(peek)
    /\ advance
    /\ UNCHANGED <<input, pc, blocks, tree>>

\* Paragraph: stop at a blank line, the end of the input or a marker line.
ParagraphEnd ==
    /\ pc = "paragraph"
    /\ atEnd \/ EndsParagraph(peek)
    /\ pc' = "driver"
    /\ UNCHANGED <<input, pos, blocks, tree, result>>

\* Admonition: consume the marker line.
AdmonitionOpen ==
    /\ Dispatch("admonition")
    /\ advance
    /\ pc' = "admonition"
    /\ tree' = NoPending
    /\ UNCHANGED <<input, blocks>>

\* Admonition: consume a line that begins with the indentation prefix, and
\* gather it without the prefix.
AdmonitionLine ==
    /\ pc = "admonition"
    /\ ~atEnd
    /\ HasIndent(peek)
    /\ advance
    /\ tree' = Pending(FALSE, Append(tree.lines, StripIndent(peek)))
    /\ UNCHANGED <<input, pc, blocks>>

\* Admonition: at the first line without the prefix, or the end of the
\* input, the body is parsed as a document of its own.
AdmonitionBody ==
    /\ pc = "admonition"
    /\ atEnd \/ ~HasIndent(peek)
    /\ SubParse(tree.lines, "driver", NoPending, pos)
    /\ UNCHANGED result

\* Tab group: consume the opening delimiter line.
TabsOpen ==
    /\ Dispatch("tabs")
    /\ advance
    /\ pc' = "tabs"
    /\ tree' = NoPending
    /\ UNCHANGED <<input, blocks>>

\* Tab group: a new-tab line; the body of the tab that was open is parsed.
TabsNewTab ==
    /\ pc = "tabs"
    /\ ~atEnd
    /\ IsNewTab(peek)
    /\ IF tree.open
       THEN /\ result' = peek
            /\ SubParse(tree.lines, "tabs", Pending(TRUE, <<>>), pos + 1)
       ELSE /\ advance
            /\ tree' = Pending(TRUE, <<>>)
            /\ UNCHANGED <<input, pc, blocks>>

\* Tab group: the end-of-group line; the body of the open tab is parsed.
TabsEndGroup ==
    /\ pc = "tabs"
    /\ ~atEnd
    /\ IsEndOfGroup(peek)
    /\ IF tree.open
       THEN /\ result' = peek
            /\ SubParse(tree.lines, "driver", NoPending, pos + 1)
       ELSE /\ advance
            /\ pc' = "driver"
            /\ tree' = NoPending
            /\ UNCHANGED <<input, blocks>>

\* Tab group: any other line goes to the pending body of the open tab.
TabsLine ==
    /\ pc = "tabs"
    /\ ~atEnd
    /\ ~IsNewTab(peek)
    /\ ~IsEndOfGroup(peek)
    /\ advance
    /\ tree' = Pending(tree.open, IF tree.open THEN Append(tree.lines, peek) ELSE tree.lines)
    /\ UNCHANGED <<input, pc, blocks>>

\* Tab group: the end of the input closes the group.
TabsEndOfInput ==
    /\ pc = "tabs"
    /\ atEnd
    /\ IF tree.open
       THEN SubParse(tree.lines, "driver", NoPending, pos)
       ELSE /\ pc' = "driver"
            /\ tree' = NoPending
            /\ UNCHANGED <<input, pos, blocks>>
    /\ UNCHANGED result

NextCursor ==
    \/ DriverBlank
    \/ DriverEnd
    \/ DriverReturn
    \/ HeadingLine
    \/ FenceOpen
    \/ FenceLine
    \/ FenceClose
    \/ BulletOpen
    \/ BulletLine
    \/ BulletEnd
    \/ QuoteOpen
    \/ QuoteLine
    \/ QuoteEnd
    \/ ParagraphOpen
    \/ ParagraphLine
    \/ ParagraphEnd
    \/ AdmonitionOpen
    \/ AdmonitionLine
    \/ AdmonitionBody
    \/ TabsOpen
    \/ TabsNewTab
    \/ TabsEndGroup
    \/ TabsLine
    \/ TabsEndOfInput

SpecCursor == InitCursor /\ [][NextCursor]_vars

\* C10: advance() is never called while the cursor is at end-of-input, in
\* the top-level parse and in every recursive parse: the cursor is at most
\* the number of lines past the first, and a step that moves the cursor
\* moves it by one from a line of the input.
C10_AdvanceInBounds ==
    /\ [](pos <= Len(input) + 1)
    /\ [](\A i \in 1..Len(blocks) : blocks[i].pos <= Len(blocks[i].input) + 1)
    /\ [][(Len(blocks') = Len(blocks) /\ pos' # pos) =>
              (pos <= Len(input) /\ pos' = pos + 1 /\ result' = input[pos])]_vars

\* A recursive parse is in the loop of a fence that nothing closes, at the
\* end of its input.
C10_Witness ==
    /\ pc = "code"
    /\ blocks # <<>>
    /\ atEnd

====
